---- MODULE Spec2Model ----
(***************************************************************************)
(* tiny-args: the command tree built by CommandBuilder (src/src/lib.rs)    *)
(* and the parser of src/src/parser.rs (parse, traverse, args), modelled   *)
(* as a state machine that runs one parse_from call, one loop iteration    *)
(* per step.                                                               *)
(***************************************************************************)
EXTENDS Integers, Sequences, FiniteSets, TLC

VARIABLES root, argv, input, pc, cmd, argslist, argopt, result,
          lhs, rhs, eq, prev, builders, found

vars == <<root, argv, input, pc, cmd, argslist, argopt, result, lhs, rhs, eq,
          prev, builders, found>>

(***************************************************************************)
(* Bounds.                                                                 *)
(***************************************************************************)
\* Largest number of tokens after the program name in a token list.
MaxTokens == 4

(***************************************************************************)
(* Strings.  A Rust String is a TLA+ string; Chars gives its characters,   *)
(* which is what starts_with, get(2..), chars().nth(1) and parse() read.   *)
(***************************************************************************)
Chars(s) ==
    CASE s = "test-program" -> <<"t","e","s","t","-","p","r","o","g","r","a","m">>
      [] s = "--num"   -> <<"-","-","n","u","m">>
      [] s = "--idk"   -> <<"-","-","i","d","k">>
      [] s = "--path"  -> <<"-","-","p","a","t","h">>
      [] s = "--float" -> <<"-","-","f","l","o","a","t">>
      [] s = "--help"  -> <<"-","-","h","e","l","p">>
      [] s = "-h"      -> <<"-","h">>
      [] s = "-V"      -> <<"-","V">>
      [] s = "-num"    -> <<"-","n","u","m">>
      [] s = "--"      -> <<"-","-">>
      [] s = "-"       -> <<"-">>
      [] s = "-5"      -> <<"-","5">>
      [] s = "1"       -> <<"1">>
      [] s = "2"       -> <<"2">>
      [] s = "1.5"     -> <<"1",".","5">>
      [] s = "test"    -> <<"t","e","s","t">>
      [] s = "sub"     -> <<"s","u","b">>
      [] s = "aux"     -> <<"a","u","x">>
      [] s = "num"     -> <<"n","u","m">>
      [] s = "idk"     -> <<"i","d","k">>
      [] s = "path"    -> <<"p","a","t","h">>
      [] s = "float"   -> <<"f","l","o","a","t">>
      [] s = "help"    -> <<"h","e","l","p">>
      [] s = "idk2"    -> <<"i","d","k","2">>
      [] s = "testception" -> <<"t","e","s","t","c","e","p","t","i","o","n">>
      [] s = ""        -> <<>>

\* str::starts_with(prefix), prefix given as characters
StartsWith(s, p) ==
    /\ Len(Chars(s)) >= Len(p)
    /\ SubSeq(Chars(s), 1, Len(p)) = p

None == [none |-> TRUE]
Some(x) == [some |-> x]
IsSome(o) == o # None

\* str::get(2..): None when the string is shorter than two bytes
Get2(s) ==
    IF Len(Chars(s)) >= 2 THEN Some(SubSeq(Chars(s), 3, Len(Chars(s)))) ELSE None

\* str::chars().nth(1)
Nth1(s) ==
    IF Len(Chars(s)) >= 2 THEN Some(Chars(s)[2]) ELSE None

(***************************************************************************)
(* Number parsing: i64::from_str and f64::from_str.                        *)
(***************************************************************************)
Digits == <<"0","1","2","3","4","5","6","7","8","9">>
IsDigit(c) == \E d \in 1..10 : Digits[d] = c
DigitVal(c) == (CHOOSE d \in 1..10 : Digits[d] = c) - 1

RECURSIVE DecVal(_)
DecVal(cs) ==
    IF cs = <<>> THEN 0
    ELSE 10 * DecVal(SubSeq(cs, 1, Len(cs) - 1)) + DigitVal(cs[Len(cs)])

Ok(v) == [ok |-> TRUE, v |-> v]
Err(e) == [ok |-> FALSE, err |-> e]

\* <i64 as FromStr>::from_str: an optional sign, then one or more digits.
\* The tokens of the model have one or two digits, far from the i64 range,
\* so the overflow error cannot occur and is not represented.
ParseI64(s) ==
    LET cs   == Chars(s)
        sgn  == cs # <<>> /\ cs[1] \in {"+", "-"}
        body == IF sgn THEN Tail(cs) ELSE cs
        v    == IF sgn /\ cs[1] = "-" THEN -DecVal(body) ELSE DecVal(body)
    IN  IF cs = <<>> THEN Err("empty")
        ELSE IF body = <<>> \/ \E i \in 1..Len(body) : ~IsDigit(body[i])
             THEN Err("invalid digit")
        ELSE Ok(v)

RECURSIVE StripZeros(_, _)
\* the decimal m * 10^-s with the trailing zeros of the fraction removed
StripZeros(m, s) ==
    IF s > 0 /\ m % 10 = 0 THEN StripZeros(m \div 10, s - 1) ELSE [m |-> m, s |-> s]

\* <f64 as FromStr>::from_str on decimal literals without exponent: an
\* optional sign, digits with at most one '.', at least one digit.  The
\* value is the decimal it denotes (mantissa m, s fractional digits).
ParseF64(s) ==
    LET cs   == Chars(s)
        sgn  == cs # <<>> /\ cs[1] \in {"+", "-"}
        body == IF sgn THEN Tail(cs) ELSE cs
        dots == {i \in 1..Len(body) : body[i] = "."}
        digs == SelectSeq(body, IsDigit)
        frac == IF dots = {} THEN 0 ELSE Len(body) - (CHOOSE i \in dots : TRUE)
        m    == IF sgn /\ cs[1] = "-" THEN -DecVal(digs) ELSE DecVal(digs)
    IN  IF cs = <<>> THEN Err("empty")
        ELSE IF \/ Cardinality(dots) > 1
                \/ digs = <<>>
                \/ \E i \in 1..Len(body) : ~IsDigit(body[i]) /\ body[i] # "."
             THEN Err("invalid float literal")
        ELSE Ok(StripZeros(m, frac))

(***************************************************************************)
(* ArgName, Arg, ArgList (src/src/lib.rs).                                 *)
(***************************************************************************)
Short(c)   == [kind |-> "Short", short |-> c]
Long(l)    == [kind |-> "Long", long |-> l]
Both(c, l) == [kind |-> "Both", short |-> c, long |-> l]

\* equality that asks two Both names to agree on both components
ArgNameEqBothAnd(self, other) ==
    CASE self.kind = "Short" ->
           (CASE other.kind = "Short" -> self.short = other.short
              [] other.kind = "Long"  -> FALSE
              [] other.kind = "Both"  -> self.short = other.short)
      [] self.kind = "Long" ->
           (CASE other.kind = "Short" -> FALSE
              [] other.kind = "Long"  -> self.long = other.long
              [] other.kind = "Both"  -> self.long = other.long)
      [] self.kind = "Both" ->
           (CASE other.kind = "Short" -> self.short = other.short
              [] other.kind = "Long"  -> self.long = other.long
              [] other.kind = "Both"  ->
                   self.short = other.short /\ self.long = other.long)

\* impl PartialEq for ArgName
ArgNameEq(self, other) ==
    CASE self.kind = "Short" ->
           (CASE other.kind = "Short" -> self.short = other.short
              [] other.kind = "Long"  -> FALSE
              [] other.kind = "Both"  -> self.short = other.short)
      [] self.kind = "Long" ->
           (CASE other.kind = "Short" -> FALSE
              [] other.kind = "Long"  -> self.long = other.long
              [] other.kind = "Both"  -> self.long = other.long)
      [] self.kind = "Both" ->
           (CASE other.kind = "Short" -> self.short = other.short
              [] other.kind = "Long"  -> self.long = other.long
              [] other.kind = "Both"  ->
                   self.short = other.short \/ self.long = other.long)

\* Arg::new
ArgNew(argname, argtype) ==
    [argname |-> argname, argtype |-> argtype, argvalue |-> None]

\* Arg::init
ArgInit(arg, argvalue) == [arg EXCEPT !.argvalue = Some(argvalue)]

\* a panic!() of the code: the value of an operation that panicked
PANIC == [panic |-> TRUE]

\* an insert that panics only for a name that is the same variant with the
\* same components
InsertPanicsSameVariant(args, arg) ==
    \E i \in 1..Len(args) : args[i].argname = arg.argname

\* ArgList::insert panics when an equal name is already in the list
InsertPanics(args, arg) ==
    \E i \in 1..Len(args) : ArgNameEq(args[i].argname, arg.argname)

\* ArgList::insert when it does not panic
Insert(args, arg) == Append(args, arg)

\* filter that keeps every declared argument, initialised or not
FilterKeepAll(args) == args

\* ArgList::filter
Filter(args) == SelectSeq(args, LAMBDA a : IsSome(a.argvalue))

\* ArgList::get: the first argument whose name equals argname
Get(args, argname) ==
    LET hits == {i \in 1..Len(args) : ArgNameEq(args[i].argname, argname)}
    IN  IF hits = {} THEN None
        ELSE Some(args[CHOOSE i \in hits : \A j \in hits : i <= j])

\* ArgList::init_arg panics when no argument has a name equal to argname
InitArgPanics(args, argname) ==
    ~\E i \in 1..Len(args) : ArgNameEq(args[i].argname, argname)

\* init_arg that leaves an already initialised argument as it is
InitArgKeepFirst(args, argname, argvalue) ==
    LET hits == {i \in 1..Len(args) : ArgNameEq(args[i].argname, argname)}
        k    == CHOOSE i \in hits : \A j \in hits : i <= j
    IN  IF IsSome(args[k].argvalue) THEN args
        ELSE [args EXCEPT ![k] = ArgInit(@, argvalue)]

\* ArgList::init_arg: initialises the first argument whose name equals
\* argname
InitArg(args, argname, argvalue) ==
    LET hits == {i \in 1..Len(args) : ArgNameEq(args[i].argname, argname)}
        k    == CHOOSE i \in hits : \A j \in hits : i <= j
    IN  [args EXCEPT ![k] = ArgInit(@, argvalue)]

(***************************************************************************)
(* CommandBuilder and Command (src/src/lib.rs).                            *)
(***************************************************************************)
\* Command::create
Create(name) ==
    [name |-> name, args |-> <<>>, subcommands |-> <<>>, parents |-> <<>>]

\* CommandBuilder::arg
ArgB(b, argname, argtype) ==
    IF b = PANIC THEN PANIC
    ELSE IF InsertPanics(b.args, ArgNew(argname, argtype)) THEN PANIC
    ELSE [b EXCEPT !.args = Insert(b.args, ArgNew(argname, argtype))]

\* CommandBuilder::add_parents
AddParents(b, grandparents, parent) ==
    [b EXCEPT !.parents = Append(grandparents, parent)]

\* CommandBuilder::build (the help text is not modelled)
Build(b) == b

\* CommandBuilder::subcommand
Subcommand(b, subcmd) ==
    IF b = PANIC \/ subcmd = PANIC THEN PANIC
    ELSE IF \E i \in 1..Len(b.subcommands) : b.subcommands[i].name = subcmd.name
         THEN PANIC
    ELSE [b EXCEPT !.subcommands =
              Append(@, Build(AddParents(subcmd, b.parents, b.name)))]


(***************************************************************************)
(* The commands of src/src/tests.rs.                                       *)
(***************************************************************************)
\* the arguments of test_command()
TestArgs(b) ==
    ArgB(ArgB(ArgB(ArgB(ArgB(ArgB(ArgB(b,
        Short("V"), "Flag"),
        Long(Chars("path")), "Path"),
        Long(Chars("num")), "Num"),
        Long(Chars("float")), "Float"),
        Long(Chars("idk")), "String"),
        Long(Chars("idk2")), "String"),
        Both("h", Chars("help")), "Flag")

\* a subcommand with a subcommand of its own, both named "test"
InnerCommand == ArgB(ArgB(Create("test"), Both("n", Chars("num")), "Num"),
                     Short("h"), "Flag")
InnerCommandBuilt == Build(AddParents(InnerCommand, <<>>, "test"))
TestCommand  == Subcommand(TestArgs(Create("test")), InnerCommand)
AuxCommand   == ArgB(Create("aux"), Long(Chars("idk")), "String")

\* test_command() as the root, with its subcommands declared in either order
RootA == Build(Subcommand(Subcommand(TestArgs(Create("testception")),
                                     TestCommand), AuxCommand))
RootB == Build(Subcommand(Subcommand(TestArgs(Create("testception")),
                                     AuxCommand), TestCommand))
Roots == {RootA, RootB}

(***************************************************************************)
(* Token lists given to parse_from.                                        *)
(***************************************************************************)
Tokens == {"--num", "--idk", "--path", "--float", "-h", "--help",
           "1", "2", "test", "-num"}

RECURSIVE SeqsUpTo(_, _)
SeqsUpTo(S, n) ==
    IF n = 0 THEN {<<>>}
    ELSE LET shorter == SeqsUpTo(S, n - 1)
         IN  shorter \cup {Append(q, x) : q \in {r \in shorter : Len(r) = n - 1},
                                          x \in S}

\* the empty vector, or a program name followed by at most MaxTokens tokens
Inputs == {<<>>} \cup {<<"test-program">> \o q : q \in SeqsUpTo(Tokens, MaxTokens)}

(***************************************************************************)
(* Errors returned by the parser (the texts of the format! calls).         *)
(***************************************************************************)
NotValidSubcommand(tok)   == Err([msg |-> "is not a valid subcommand", subject |-> tok])
NotValidArgumentLong(l)   == Err([msg |-> "is not a valid argument", subject |-> <<"-","-">> \o l])
NotValidArgumentShort(c)  == Err([msg |-> "is not a valid argument", subject |-> <<"-", c>>])
NotValidLongArgument(tok) == Err([msg |-> "is not a valid long argument", subject |-> tok])
NotValidShortArgument(tok) == Err([msg |-> "is not a valid short argument", subject |-> tok])
NotArgumentNorValue(tok)  == Err([msg |-> "is not an argument nor a value", subject |-> tok])
NotValidNumber(argname)   == Err([msg |-> "value's must be a valid number", subject |-> argname])
NotValidFloat(argname)    == Err([msg |-> "value's must be a valid float number", subject |-> argname])

\* ParsedCommand
ParsedCommand(args, parents) == Ok([args |-> args, parents |-> parents])

(***************************************************************************)
(* The state machine of one parse_from call.                               *)
(***************************************************************************)
Init ==
    /\ root \in Roots
    /\ argv \in Inputs
    /\ input = argv
    /\ pc = "parse"
    /\ cmd = root
    /\ argslist = <<>>
    /\ argopt = None
    /\ result = None
    /\ lhs = None
    /\ rhs = None
    /\ eq = None
    /\ prev = None
    /\ found = <<>>
    /\ builders = <<>>

\* parser::parse up to the call of traverse: input.remove(0) panics on an
\* empty vector
Parse ==
    /\ pc = "parse"
    /\ UNCHANGED <<lhs, rhs, eq, prev, builders, found>>
    /\ IF input = <<>>
       THEN /\ pc' = "panic"
            /\ result' = PANIC
            /\ UNCHANGED input
       ELSE /\ pc' = "traverse"
            /\ input' = Tail(input)
            /\ UNCHANGED result
    /\ cmd' = root
    /\ UNCHANGED <<root, argv, argslist, argopt>>

\* find that looks among the subcommands of the root
FindSubcommandOfRoot(subcommands, name) ==
    LET hits == {i \in 1..Len(root.subcommands) : root.subcommands[i].name = name}
    IN  IF hits = {} THEN None
        ELSE Some(root.subcommands[CHOOSE i \in hits : \A j \in hits : i <= j])

\* subcommands.iter().find(|&s| s.name == *arg): the first with that name
FindSubcommand(subcommands, name) ==
    LET hits == {i \in 1..Len(subcommands) : subcommands[i].name = name}
    IN  IF hits = {} THEN None
        ELSE Some(subcommands[CHOOSE i \in hits : \A j \in hits : i <= j])

\* an iteration of traverse that passes over a token naming no subcommand
TraverseStepSkip ==
    /\ pc = "traverse"
    /\ UNCHANGED <<lhs, rhs, eq, prev, builders, found>>
    /\ input # <<>>
    /\ ~StartsWith(Head(input), <<"-">>)
    /\ LET arg == Head(input)
       IN  /\ cmd' = IF IsSome(FindSubcommand(cmd.subcommands, arg))
                     THEN FindSubcommand(cmd.subcommands, arg).some ELSE cmd
           /\ input' = Tail(input)
           /\ UNCHANGED <<pc, result>>
    /\ UNCHANGED <<root, argv, argslist, argopt>>

\* one iteration of the loop of traverse whose token does not start with '-'
TraverseStep ==
    /\ pc = "traverse"
    /\ UNCHANGED <<lhs, rhs, eq, prev, builders, found>>
    /\ input # <<>>
    /\ ~StartsWith(Head(input), <<"-">>)
    /\ LET arg == Head(input)
       IN  IF IsSome(FindSubcommand(cmd.subcommands, arg))
           THEN /\ cmd' = FindSubcommand(cmd.subcommands, arg).some
                /\ input' = Tail(input)
                /\ UNCHANGED <<pc, result>>
           ELSE /\ result' = NotValidSubcommand(arg)
                /\ pc' = "done"
                /\ UNCHANGED <<cmd, input>>
    /\ UNCHANGED <<root, argv, argslist, argopt>>

\* the end of traverse that hands args the argument list of the call before
\* when there is one, in place of a clone of the command's list
TraverseEndSharedArgs ==
    /\ pc = "traverse"
    /\ UNCHANGED <<lhs, rhs, eq, prev, builders, found>>
    /\ IF input = <<>> THEN TRUE ELSE StartsWith(Head(input), <<"-">>)
    /\ pc' = "args"
    /\ argslist' = IF argslist = <<>> THEN cmd.args ELSE argslist
    /\ argopt' = None
    /\ UNCHANGED <<root, argv, input, cmd, result>>

\* the end of traverse (no token left, or a token starting with '-') and
\* the call args(command.args.clone(), input)
TraverseEnd ==
    /\ pc = "traverse"
    /\ UNCHANGED <<lhs, rhs, eq, prev, builders, found>>
    /\ IF input = <<>> THEN TRUE ELSE StartsWith(Head(input), <<"-">>)
    /\ pc' = "args"
    /\ argslist' = cmd.args
    /\ argopt' = None
    /\ UNCHANGED <<root, argv, input, cmd, result>>

\* a coercion that takes 0 for a token that is not a number
CoerceOrZero(argtype, tok) ==
    CASE argtype = "String" -> Ok([tag |-> "String", v |-> tok])
      [] argtype = "Num"    ->
           IF ParseI64(tok).ok THEN Ok([tag |-> "Num", v |-> ParseI64(tok).v])
           ELSE Ok([tag |-> "Num", v |-> 0])
      [] argtype = "Float"  ->
           IF ParseF64(tok).ok THEN Ok([tag |-> "Float", v |-> ParseF64(tok).v])
           ELSE Ok([tag |-> "Float", v |-> [m |-> 0, s |-> 0]])
      [] argtype = "Path"   -> Ok([tag |-> "Path", v |-> tok])

\* the value an argument of type argtype takes from the token tok
Coerce(argtype, tok) ==
    CASE argtype = "String" -> Ok([tag |-> "String", v |-> tok])
      [] argtype = "Num"    ->
           IF ParseI64(tok).ok THEN Ok([tag |-> "Num", v |-> ParseI64(tok).v])
           ELSE Err("Num")
      [] argtype = "Float"  ->
           IF ParseF64(tok).ok THEN Ok([tag |-> "Float", v |-> ParseF64(tok).v])
           ELSE Err("Float")
      [] argtype = "Path"   -> Ok([tag |-> "Path", v |-> tok])

\* an iteration with a pending argument that leaves the argument pending
ArgsPendingKeepsPending ==
    /\ pc = "args"
    /\ UNCHANGED <<lhs, rhs, eq, prev, builders, found>>
    /\ input # <<>>
    /\ IsSome(argopt)
    /\ LET arg == argopt.some
           tok == Head(input)
       IN  IF arg.argtype = "Flag"
           THEN IF InitArgPanics(argslist, arg.argname)
                THEN /\ pc' = "panic"
                     /\ result' = PANIC
                     /\ UNCHANGED <<argslist, argopt, input>>
                ELSE /\ argslist' = InitArg(argslist, arg.argname, [tag |-> "Flag"])
                     /\ argopt' = argopt
                     /\ UNCHANGED <<input, pc, result>>
           ELSE IF ~Coerce(arg.argtype, tok).ok
                THEN /\ result' = IF arg.argtype = "Num"
                                  THEN NotValidNumber(arg.argname)
                                  ELSE NotValidFloat(arg.argname)
                     /\ pc' = "done"
                     /\ UNCHANGED <<argslist, argopt, input>>
           ELSE IF InitArgPanics(argslist, arg.argname)
                THEN /\ pc' = "panic"
                     /\ result' = PANIC
                     /\ UNCHANGED <<argslist, argopt, input>>
                ELSE /\ argslist' = InitArg(argslist, arg.argname,
                                            Coerce(arg.argtype, tok).v)
                     /\ input' = Tail(input)
                     /\ argopt' = argopt
                     /\ UNCHANGED <<pc, result>>
    /\ UNCHANGED <<root, argv, cmd>>

\* an iteration of the loop of args with a pending argument (argopt is Some)
ArgsPending ==
    /\ pc = "args"
    /\ UNCHANGED <<lhs, rhs, eq, prev, builders, found>>
    /\ input # <<>>
    /\ IsSome(argopt)
    /\ LET arg == argopt.some
           tok == Head(input)
       IN  IF arg.argtype = "Flag"
           THEN IF InitArgPanics(argslist, arg.argname)
                THEN /\ pc' = "panic"
                     /\ result' = PANIC
                     /\ UNCHANGED <<argslist, argopt, input>>
                ELSE /\ argslist' = InitArg(argslist, arg.argname, [tag |-> "Flag"])
                     /\ argopt' = None
                     /\ UNCHANGED <<input, pc, result>>
           ELSE IF ~Coerce(arg.argtype, tok).ok
                THEN /\ result' = IF arg.argtype = "Num"
                                  THEN NotValidNumber(arg.argname)
                                  ELSE NotValidFloat(arg.argname)
                     /\ pc' = "done"
                     /\ UNCHANGED <<argslist, argopt, input>>
           ELSE IF InitArgPanics(argslist, arg.argname)
                THEN /\ pc' = "panic"
                     /\ result' = PANIC
                     /\ UNCHANGED <<argslist, argopt, input>>
                ELSE /\ argslist' = InitArg(argslist, arg.argname,
                                            Coerce(arg.argtype, tok).v)
                     /\ input' = Tail(input)
                     /\ argopt' = None
                     /\ UNCHANGED <<pc, result>>
    /\ UNCHANGED <<root, argv, cmd>>

\* an iteration on a "--" token that does not look whether an argument is
\* waiting for its value: the token is taken as an argument
ArgsLongBeforePending ==
    /\ pc = "args"
    /\ UNCHANGED <<lhs, rhs, eq, prev, builders, found>>
    /\ input # <<>>
    /\ StartsWith(Head(input), <<"-", "-">>)
    /\ LET tok == Head(input)
       IN  IF IsSome(Get2(tok))
           THEN IF IsSome(Get(argslist, Long(Get2(tok).some)))
                THEN /\ argopt' = Some(Get(argslist, Long(Get2(tok).some)).some)
                     /\ input' = Tail(input)
                     /\ UNCHANGED <<pc, result>>
                ELSE /\ result' = NotValidArgumentLong(Get2(tok).some)
                     /\ pc' = "done"
                     /\ UNCHANGED <<argopt, input>>
           ELSE /\ result' = NotValidLongArgument(tok)
                /\ pc' = "done"
                /\ UNCHANGED <<argopt, input>>
    /\ UNCHANGED <<root, argv, cmd, argslist>>

\* an iteration of the loop of args on a token starting with "--"
ArgsLong ==
    /\ pc = "args"
    /\ UNCHANGED <<lhs, rhs, eq, prev, builders, found>>
    /\ input # <<>>
    /\ ~IsSome(argopt)
    /\ StartsWith(Head(input), <<"-", "-">>)
    /\ LET tok == Head(input)
       IN  IF IsSome(Get2(tok))
           THEN IF IsSome(Get(argslist, Long(Get2(tok).some)))
                THEN /\ argopt' = Some(Get(argslist, Long(Get2(tok).some)).some)
                     /\ input' = Tail(input)
                     /\ UNCHANGED <<pc, result>>
                ELSE /\ result' = NotValidArgumentLong(Get2(tok).some)
                     /\ pc' = "done"
                     /\ UNCHANGED <<argopt, input>>
           ELSE /\ result' = NotValidLongArgument(tok)
                /\ pc' = "done"
                /\ UNCHANGED <<argopt, input>>
    /\ UNCHANGED <<root, argv, cmd, argslist>>

\* an iteration on a '-' token that takes all the text after the dash as a
\* long name
ArgsShortAsLong ==
    /\ pc = "args"
    /\ UNCHANGED <<lhs, rhs, eq, prev, builders, found>>
    /\ input # <<>>
    /\ ~IsSome(argopt)
    /\ ~StartsWith(Head(input), <<"-", "-">>)
    /\ StartsWith(Head(input), <<"-">>)
    /\ LET tok  == Head(input)
           name == Long(Tail(Chars(tok)))
       IN  IF IsSome(Nth1(tok))
           THEN IF IsSome(Get(argslist, name))
                THEN /\ argopt' = Some(Get(argslist, name).some)
                     /\ input' = Tail(input)
                     /\ UNCHANGED <<pc, result>>
                ELSE /\ result' = NotValidArgumentShort(Nth1(tok).some)
                     /\ pc' = "done"
                     /\ UNCHANGED <<argopt, input>>
           ELSE /\ result' = NotValidShortArgument(tok)
                /\ pc' = "done"
                /\ UNCHANGED <<argopt, input>>
    /\ UNCHANGED <<root, argv, cmd, argslist>>

\* an iteration of the loop of args on a token starting with one '-'
ArgsShort ==
    /\ pc = "args"
    /\ UNCHANGED <<lhs, rhs, eq, prev, builders, found>>
    /\ input # <<>>
    /\ ~IsSome(argopt)
    /\ ~StartsWith(Head(input), <<"-", "-">>)
    /\ StartsWith(Head(input), <<"-">>)
    /\ LET tok == Head(input)
       IN  IF IsSome(Nth1(tok))
           THEN IF IsSome(Get(argslist, Short(Nth1(tok).some)))
                THEN /\ argopt' = Some(Get(argslist, Short(Nth1(tok).some)).some)
                     /\ input' = Tail(input)
                     /\ UNCHANGED <<pc, result>>
                ELSE /\ result' = NotValidArgumentShort(Nth1(tok).some)
                     /\ pc' = "done"
                     /\ UNCHANGED <<argopt, input>>
           ELSE /\ result' = NotValidShortArgument(tok)
                /\ pc' = "done"
                /\ UNCHANGED <<argopt, input>>
    /\ UNCHANGED <<root, argv, cmd, argslist>>

\* an iteration that passes over a token starting with no '-'
ArgsNotArgSkip ==
    /\ pc = "args"
    /\ UNCHANGED <<lhs, rhs, eq, prev, builders, found>>
    /\ input # <<>>
    /\ ~IsSome(argopt)
    /\ ~StartsWith(Head(input), <<"-">>)
    /\ input' = Tail(input)
    /\ UNCHANGED <<root, argv, pc, result, cmd, argslist, argopt>>

\* an iteration of the loop of args on a token starting with no '-'
ArgsNotArg ==
    /\ pc = "args"
    /\ UNCHANGED <<lhs, rhs, eq, prev, builders, found>>
    /\ input # <<>>
    /\ ~IsSome(argopt)
    /\ ~StartsWith(Head(input), <<"-">>)
    /\ result' = NotArgumentNorValue(Head(input))
    /\ pc' = "done"
    /\ UNCHANGED <<root, argv, input, cmd, argslist, argopt>>

\* the end of the loop that returns the argument list as it is, with the
\* arguments that were never given
ArgsEndUnfiltered ==
    /\ pc = "args"
    /\ UNCHANGED <<lhs, rhs, eq, prev, builders, found>>
    /\ input = <<>>
    /\ result' = ParsedCommand(argslist, cmd.parents)
    /\ pc' = "done"
    /\ UNCHANGED <<root, argv, input, cmd, argslist, argopt>>

\* the loop of args ends when no token is left: Ok(argslist.filter()), which
\* parse wraps in a ParsedCommand with the parents of the command
ArgsEnd ==
    /\ pc = "args"
    /\ UNCHANGED <<lhs, rhs, eq, prev, builders, found>>
    /\ input = <<>>
    /\ result' = ParsedCommand(Filter(argslist), cmd.parents)
    /\ pc' = "done"
    /\ UNCHANGED <<root, argv, input, cmd, argslist, argopt>>

Next ==
    \/ Parse
    \/ TraverseStep
    \/ TraverseEnd
    \/ ArgsPending
    \/ ArgsLong
    \/ ArgsShort
    \/ ArgsNotArg
    \/ ArgsEnd

Spec == Init /\ [][Next]_vars

(***************************************************************************)
(* The same parser on token lists with the bare dashes "--" and "-" and a  *)
(* negative number.                                                        *)
(***************************************************************************)
TokensB == {"--", "-", "-5", "--idk", "--help", "--num", "1", "test"}

InputsB == {<<"test-program">> \o q : q \in SeqsUpTo(TokensB, MaxTokens)}

InitB ==
    /\ root \in Roots
    /\ argv \in InputsB
    /\ input = argv
    /\ pc = "parse"
    /\ cmd = root
    /\ argslist = <<>>
    /\ argopt = None
    /\ result = None
    /\ lhs = None
    /\ rhs = None
    /\ eq = None
    /\ prev = None
    /\ found = <<>>
    /\ builders = <<>>

SpecB == InitB /\ [][Next]_vars

(***************************************************************************)
(* The functions of src/src/parser.rs as functions of their parameters:    *)
(* what a call returns (or PANIC), computed from the Command and the       *)
(* token list alone.                                                       *)
(***************************************************************************)
RECURSIVE parser_args(_, _, _)
\* args, from the top of its loop with the given argslist, inputargs and
\* argopt
parser_args(al, inputargs, ao) ==
    IF inputargs = <<>> THEN Ok(Filter(al))
    ELSE LET tok == Head(inputargs)
         IN  IF IsSome(ao)
             THEN LET arg == ao.some
                  IN  IF InitArgPanics(al, arg.argname) THEN PANIC
                      ELSE IF arg.argtype = "Flag"
                      THEN parser_args(InitArg(al, arg.argname, [tag |-> "Flag"]),
                                inputargs, None)
                      ELSE IF ~Coerce(arg.argtype, tok).ok
                      THEN IF arg.argtype = "Num"
                           THEN NotValidNumber(arg.argname)
                           ELSE NotValidFloat(arg.argname)
                      ELSE parser_args(InitArg(al, arg.argname,
                                        Coerce(arg.argtype, tok).v),
                                Tail(inputargs), None)
             ELSE IF StartsWith(tok, <<"-", "-">>)
             THEN IF IsSome(Get2(tok))
                  THEN IF IsSome(Get(al, Long(Get2(tok).some)))
                       THEN parser_args(al, Tail(inputargs),
                                 Some(Get(al, Long(Get2(tok).some)).some))
                       ELSE NotValidArgumentLong(Get2(tok).some)
                  ELSE NotValidLongArgument(tok)
             ELSE IF StartsWith(tok, <<"-">>)
             THEN IF IsSome(Nth1(tok))
                  THEN IF IsSome(Get(al, Short(Nth1(tok).some)))
                       THEN parser_args(al, Tail(inputargs),
                                 Some(Get(al, Short(Nth1(tok).some)).some))
                       ELSE NotValidArgumentShort(Nth1(tok).some)
                  ELSE NotValidShortArgument(tok)
             ELSE NotArgumentNorValue(tok)

RECURSIVE parser_traverse(_, _)
\* traverse, from the top of its loop at the node c: the reached command and
\* the tokens left, or the error
parser_traverse(c, a) ==
    IF a = <<>> THEN Ok([cmd |-> c, input |-> a])
    ELSE IF StartsWith(Head(a), <<"-">>) THEN Ok([cmd |-> c, input |-> a])
    ELSE IF IsSome(FindSubcommand(c.subcommands, Head(a)))
         THEN parser_traverse(FindSubcommand(c.subcommands, Head(a)).some, Tail(a))
         ELSE NotValidSubcommand(Head(a))

\* parser::parse(root, input)
parser_parse(r, in) ==
    IF in = <<>> THEN PANIC
    ELSE LET t == parser_traverse(r, Tail(in))
         IN  IF ~t.ok THEN t
             ELSE LET l == parser_args(t.v.cmd.args, t.v.input, None)
                  IN  IF l = PANIC THEN PANIC
                      ELSE IF ~l.ok THEN l
                      ELSE ParsedCommand(l.v, t.v.cmd.parents)

(***************************************************************************)
(* Several parse_from calls, one after the other, on the same Command.     *)
(***************************************************************************)
\* Largest number of tokens after the program name in a list of these calls.
MaxCallTokens == 2

TokensCalls == {"-h", "1", "test", "--"}

InputsCalls ==
    {<<"test-program">> \o q : q \in SeqsUpTo(TokensCalls, MaxCallTokens)}

InitCalls ==
    /\ root \in Roots
    /\ argv \in InputsCalls
    /\ input = argv
    /\ pc = "parse"
    /\ cmd = root
    /\ argslist = <<>>
    /\ argopt = None
    /\ result = None
    /\ lhs = None
    /\ rhs = None
    /\ eq = None
    /\ prev = None
    /\ found = <<>>
    /\ builders = <<>>

\* the next parse_from call on the same Command, once the call before has
\* returned: the caller passes &self and a new vector.  The locals of the
\* call that returned are dead; they are left as they were, so that the new
\* call is seen to set every one of them before it reads it.
NewCall ==
    /\ pc = "done"
    /\ \E in \in InputsCalls :
          /\ argv' = in
          /\ input' = in
    /\ prev' = Some(argv)
    /\ pc' = "parse"
    /\ result' = None
    /\ UNCHANGED <<root, cmd, argslist, argopt, lhs, rhs, eq, builders, found>>

NextCalls ==
    \/ Parse
    \/ TraverseStep
    \/ TraverseEnd
    \/ ArgsPending
    \/ ArgsLong
    \/ ArgsShort
    \/ ArgsNotArg
    \/ ArgsEnd
    \/ NewCall

SpecCalls == InitCalls /\ [][NextCalls]_vars

(***************************************************************************)
(* Building a Command.  A builder expression such as                       *)
(*   Command::create(a).arg(..).subcommand(Command::create(b).arg(..)      *)
(*                                                 .into()).build()        *)
(* is evaluated receiver first: builders holds the CommandBuilders under   *)
(* construction, the innermost last.                                       *)
(***************************************************************************)
\* Largest number of Command::create calls in a builder expression.
MaxNodes == 3
\* Largest number of arguments given to one CommandBuilder.
MaxArgs == 2

BuildCmdNames == {"test", "aux"}
BuildArgNames == {Short("h"), Both("h", Chars("help")), Long(Chars("idk"))}

RECURSIVE Size(_)
RECURSIVE SizeAll(_)
\* the number of commands in the tree of a builder, and in a sequence of
\* builders
Size(b) == 1 + SizeAll(b.subcommands)
SizeAll(bs) == IF bs = <<>> THEN 0 ELSE Size(Head(bs)) + SizeAll(Tail(bs))

InitBuild ==
    /\ builders = <<>>
    /\ pc = "build"
    /\ root = None
    /\ cmd = None
    /\ argv = <<>>
    /\ input = <<>>
    /\ argslist = <<>>
    /\ argopt = None
    /\ result = None
    /\ lhs = None
    /\ rhs = None
    /\ eq = None
    /\ prev = None
    /\ found = <<>>

\* Command::create(name, ..): a new builder, for the root or for a subcommand
\* of the builder under construction
BuilderCreate ==
    /\ pc = "build"
    /\ SizeAll(builders) < MaxNodes
    /\ \E name \in BuildCmdNames : builders' = Append(builders, Create(name))
    /\ UNCHANGED <<root, argv, input, pc, cmd, argslist, argopt, result,
                   lhs, rhs, eq, prev, found>>

\* .arg(argname, argtype, ..) on the innermost builder
BuilderArg ==
    /\ pc = "build"
    /\ builders # <<>>
    /\ Len(builders[Len(builders)].args) < MaxArgs
    /\ \E argname \in BuildArgNames :
          LET k == Len(builders)
          IN  IF InsertPanics(builders[k].args, ArgNew(argname, "Flag"))
              THEN /\ pc' = "panic"
                   /\ result' = PANIC
                   /\ UNCHANGED builders
              ELSE /\ builders' = [builders EXCEPT ![k] = ArgB(@, argname, "Flag")]
                   /\ UNCHANGED <<pc, result>>
    /\ UNCHANGED <<root, argv, input, cmd, argslist, argopt, lhs, rhs, eq, prev, found>>

\* .into() on the innermost builder and .subcommand(..) of the one that
\* encloses it
BuilderSubcommand ==
    /\ pc = "build"
    /\ Len(builders) >= 2
    /\ LET k == Len(builders)
       IN  IF Subcommand(builders[k - 1], builders[k]) = PANIC
           THEN /\ pc' = "panic"
                /\ result' = PANIC
                /\ UNCHANGED builders
           ELSE /\ builders' = Append(SubSeq(builders, 1, k - 2),
                                      Subcommand(builders[k - 1], builders[k]))
                /\ UNCHANGED <<pc, result>>
    /\ UNCHANGED <<root, argv, input, cmd, argslist, argopt, lhs, rhs, eq, prev, found>>

\* .build() on the outermost builder
BuilderBuild ==
    /\ pc = "build"
    /\ Len(builders) = 1
    /\ root' = Build(builders[1])
    /\ cmd' = Build(builders[1])
    /\ builders' = <<>>
    /\ pc' = "built"
    /\ UNCHANGED <<argv, input, argslist, argopt, result, lhs, rhs, eq, prev, found>>

NextBuild ==
    \/ BuilderCreate
    \/ BuilderArg
    \/ BuilderSubcommand
    \/ BuilderBuild

SpecBuild == InitBuild /\ [][NextBuild]_vars

(***************************************************************************)
(* Comparing two ArgNames (impl PartialEq for ArgName), on the names of    *)
(* the test arg_name_equality and one more short and long name.            *)
(***************************************************************************)
EqShorts == {"o", "h"}
EqLongs  == {<<"o","u","t">>, <<"h","e","l","p">>}
EqNames  == {Short(c) : c \in EqShorts} \cup {Long(l) : l \in EqLongs}
                \cup {Both(c, l) : c \in EqShorts, l \in EqLongs}

InitEq ==
    /\ lhs \in EqNames
    /\ rhs \in EqNames
    /\ eq = None
    /\ prev = None
    /\ found = <<>>
    /\ builders = <<>>
    /\ pc = "eq"
    /\ root = RootA
    /\ argv = <<>>
    /\ input = <<>>
    /\ cmd = RootA
    /\ argslist = <<>>
    /\ argopt = None
    /\ result = None

\* lhs == rhs and rhs == lhs
EqStep ==
    /\ pc = "eq"
    /\ eq' = Some([ab |-> ArgNameEq(lhs, rhs), ba |-> ArgNameEq(rhs, lhs)])
    /\ pc' = "eqdone"
    /\ UNCHANGED <<root, argv, input, cmd, argslist, argopt, result, lhs, rhs,
                   prev, builders, found>>

NextEq == EqStep

SpecEq == InitEq /\ [][NextEq]_vars

(***************************************************************************)
(* An argument list filled by CommandBuilder::arg, then read by            *)
(* ArgList::get with the keys the parser makes from tokens: Short(c) for   *)
(* -c and Long(s) for --s.                                                 *)
(***************************************************************************)
\* Largest number of arguments given to the builder of this list.
MaxListArgs == 3

\* the keys of the tokens -o, -h, -x, --out, --help, --x
LookupKeys == {Short(c) : c \in EqShorts \cup {"x"}}
                 \cup {Long(l) : l \in EqLongs \cup {<<"x">>}}

InitLookup ==
    /\ builders = <<Create("test")>>
    /\ pc = "build"
    /\ root = None
    /\ cmd = None
    /\ argv = <<>>
    /\ input = <<>>
    /\ argslist = <<>>
    /\ argopt = None
    /\ result = None
    /\ lhs = None
    /\ rhs = None
    /\ eq = None
    /\ prev = None
    /\ found = <<>>

\* an arg that pushes the argument without looking at the names in the list
ListArgUnchecked ==
    /\ pc = "build"
    /\ Len(builders[1].args) < MaxListArgs
    /\ \E argname \in EqNames :
          builders' = [builders EXCEPT
                          ![1].args = Insert(@, ArgNew(argname, "Flag"))]
    /\ UNCHANGED <<root, argv, input, pc, cmd, argslist, argopt, result,
                   lhs, rhs, eq, prev, found>>

\* .arg(argname, ArgType::Flag, ..) on the builder: ArgList::insert
ListArg ==
    /\ pc = "build"
    /\ Len(builders[1].args) < MaxListArgs
    /\ \E argname \in EqNames :
          IF InsertPanics(builders[1].args, ArgNew(argname, "Flag"))
          THEN /\ pc' = "panic"
               /\ result' = PANIC
               /\ UNCHANGED builders
          ELSE /\ builders' = [builders EXCEPT ![1] = ArgB(@, argname, "Flag")]
               /\ UNCHANGED <<pc, result>>
    /\ UNCHANGED <<root, argv, input, cmd, argslist, argopt, lhs, rhs, eq,
                   prev, found>>

\* .build(): the list no longer changes
ListBuild ==
    /\ pc = "build"
    /\ root' = Build(builders[1])
    /\ cmd' = Build(builders[1])
    /\ argslist' = builders[1].args
    /\ builders' = <<>>
    /\ pc' = "built"
    /\ UNCHANGED <<argv, input, argopt, result, lhs, rhs, eq, prev, found>>

\* argslist.get(key), at most twice with the same key; found keeps what each
\* call returned
Lookup ==
    /\ pc = "built"
    /\ Len(found) < 2
    /\ \E key \in LookupKeys :
          /\ found # <<>> => key = found[1].key
          /\ found' = Append(found, [key |-> key, arg |-> Get(argslist, key)])
    /\ UNCHANGED <<root, argv, input, pc, cmd, argslist, argopt, result,
                   lhs, rhs, eq, prev, builders>>

NextLookup ==
    \/ ListArg
    \/ ListBuild
    \/ Lookup

SpecLookup == InitLookup /\ [][NextLookup]_vars

(***************************************************************************)
(* Reading a token list without running the parser: the definitions below  *)
(* describe, from argv alone, which tokens are subcommand names, which are *)
(* argument tokens and which are values.  The claims compare the parser    *)
(* with them.                                                              *)
(***************************************************************************)
IsDashTok(tok)  == Chars(tok) # <<>> /\ Chars(tok)[1] = "-"
IsLongTok(tok)  == Len(Chars(tok)) >= 2 /\ Chars(tok)[1] = "-" /\ Chars(tok)[2] = "-"
IsShortTok(tok) == Len(Chars(tok)) >= 2 /\ Chars(tok)[1] = "-" /\ Chars(tok)[2] # "-"

\* the number of leading tokens of q that do not start with '-'
RECURSIVE LeadLen(_)
LeadLen(q) ==
    IF q = <<>> THEN 0
    ELSE IF IsDashTok(Head(q)) THEN 0
    ELSE 1 + LeadLen(Tail(q))

\* the tokens after the program name that precede the first '-' token
Lead(av) == SubSeq(Tail(av), 1, LeadLen(Tail(av)))
\* the tokens from the first '-' token on
ArgTokens(av) == SubSeq(Tail(av), LeadLen(Tail(av)) + 1, Len(Tail(av)))

\* the token tok is the long or the short form of the name
Names(name, tok) ==
    \/ /\ IsLongTok(tok)
       /\ name.kind \in {"Long", "Both"}
       /\ Chars(tok) = <<"-", "-">> \o name.long
    \/ /\ IsShortTok(tok)
       /\ name.kind \in {"Short", "Both"}
       /\ Chars(tok)[2] = name.short

\* the declared arguments (indices of D) that the token names
DeclIdx(D, tok) == {i \in 1..Len(D) : Names(D[i].argname, tok)}
TheDecl(D, tok) == D[CHOOSE i \in DeclIdx(D, tok) : TRUE]
ValueBearing(a) == a.argtype \in {"String", "Num", "Float", "Path"}

\* the positions of T, from p on, that hold an argument token when a Flag
\* takes one token and every other argument two; the scan stops at a token
\* that names no declared argument
RECURSIVE OccFrom(_, _, _)
OccFrom(T, D, p) ==
    IF p > Len(T) THEN {}
    ELSE IF DeclIdx(D, T[p]) = {} THEN {p}
    ELSE {p} \cup OccFrom(T, D, IF ValueBearing(TheDecl(D, T[p])) THEN p + 2
                                                                   ELSE p + 1)
Occ(T, D) == OccFrom(T, D, 1)

\* the occurrences of the i-th declared argument
OccOf(T, D, i) == {p \in Occ(T, D) : i \in DeclIdx(D, T[p])}

\* every argument token names a declared argument and every value-bearing
\* one is followed by a value of its type
WellFormed(T, D) ==
    \A p \in Occ(T, D) :
        /\ DeclIdx(D, T[p]) # {}
        /\ ValueBearing(TheDecl(D, T[p])) =>
               p < Len(T) /\ Coerce(TheDecl(D, T[p]).argtype, T[p + 1]).ok

Max(S) == CHOOSE x \in S : \A y \in S : y <= x

Succeeded == pc = "done" /\ result.ok
Failed    == pc = "done" /\ ~result.ok

\* the entries of a parsed argument list whose name equals that of a
Entries(args, a) == {i \in 1..Len(args) : ArgNameEq(args[i].argname, a.argname)}

GivenTwice ==
    /\ Len(argv) = 5
    /\ argv[2] = argv[4]
    /\ argv[3] = argv[5]
    /\ DeclIdx(root.args, argv[2]) # {}
    /\ ValueBearing(TheDecl(root.args, argv[2]))
    /\ Coerce(TheDecl(root.args, argv[2]).argtype, argv[3]).ok

GivenTwiceFails == (pc = "done" /\ GivenTwice) => ~result.ok

(***************************************************************************)
(* C3  For every token list that parses successfully, every Flag whose     *)
(* token occurs in the list is reported as given in the result, also when  *)
(* it is the last or the only token after the program name.                *)
(***************************************************************************)
FlagGivenIsRecorded ==
    Succeeded =>
        \A i \in 1..Len(cmd.args) :
            (cmd.args[i].argtype = "Flag"
                 /\ OccOf(ArgTokens(argv), cmd.args, i) # {})
              => Entries(result.v.args, cmd.args[i]) # {}

(***************************************************************************)
(* C4  If the token list ends right after the token of a value-bearing     *)
(* argument, parse_from fails with an error naming that argument and never *)
(* returns a successful result.                                            *)
(***************************************************************************)
EndsWithValueBearing ==
    LET T == ArgTokens(argv)
    IN  /\ T # <<>>
        /\ Len(T) \in Occ(T, cmd.args)
        /\ DeclIdx(cmd.args, T[Len(T)]) # {}
        /\ ValueBearing(TheDecl(cmd.args, T[Len(T)]))

\* the tokens before the first '-' token named subcommands, and the tokens
\* before the last one are well formed
ReachesLastToken ==
    /\ result.ok \/ result.err.msg # "is not a valid subcommand"
    /\ WellFormed(SubSeq(ArgTokens(argv), 1, Len(ArgTokens(argv)) - 1), cmd.args)

MissingValueFails ==
    (pc = "done" /\ EndsWithValueBearing /\ ReachesLastToken)
      => /\ ~result.ok
         /\ result.err.subject
              = TheDecl(cmd.args, ArgTokens(argv)[Len(ArgTokens(argv))]).argname

(***************************************************************************)
(* C5  After a successful parse the occurrence count of every declared     *)
(* argument equals the number of times its token appeared in the list.     *)
(* The Arg of the code has no counter: the only record it keeps of the     *)
(* occurrences of an argument is its entry in the parsed list, so the      *)
(* count of an argument is the number of its entries.  The statement is    *)
(* made for the token lists that do not end with an argument token (those  *)
(* that do are the subject of C3 and C4).                                  *)
(***************************************************************************)
OccurrenceCount(args, a) == Cardinality(Entries(args, a))

HasShort(n) == n.kind \in {"Short", "Both"}
HasLong(n)  == n.kind \in {"Long", "Both"}

ArgNameEqualityComponentWise ==
    pc = "eqdone" =>
        /\ eq.some.ab <=> \/ HasShort(lhs) /\ HasShort(rhs) /\ lhs.short = rhs.short
                          \/ HasLong(lhs) /\ HasLong(rhs) /\ lhs.long = rhs.long
        /\ eq.some.ab <=> eq.some.ba

\* a Short compared equal to a Both with the same short, and two Boths that
\* differ in one component compared equal
ArgNameEqualityWitness ==
    /\ pc = "eqdone"
    /\ eq.some.ab
    /\ \/ lhs.kind = "Short" /\ rhs.kind = "Both"
       \/ lhs.kind = "Both" /\ rhs.kind = "Both" /\ lhs.long # rhs.long

(***************************************************************************)
(* Walking the command tree along a list of names, without regard to the   *)
(* order in which the children of a node were declared.                    *)
(***************************************************************************)
ChildrenNamed(node, n) ==
    {i \in 1..Len(node.subcommands) : node.subcommands[i].name = n}

\* the node reached from node along names; the walk stops at a name that no
\* child bears
RECURSIVE Descend(_, _)
Descend(node, names) ==
    IF names = <<>> \/ ChildrenNamed(node, Head(names)) = {} THEN node
    ELSE Descend(node.subcommands[CHOOSE i \in ChildrenNamed(node, Head(names)) : TRUE],
                 Tail(names))

\* the first of names that no child of the node reached so far bears
RECURSIVE FirstBad(_, _)
FirstBad(node, names) ==
    IF names = <<>> THEN None
    ELSE IF ChildrenNamed(node, Head(names)) = {} THEN Some(Head(names))
    ELSE FirstBad(node.subcommands[CHOOSE i \in ChildrenNamed(node, Head(names)) : TRUE],
                  Tail(names))

IsSuffix(q, r) == \E k \in 1..(Len(r) + 1) : q = SubSeq(r, k, Len(r))

(***************************************************************************)
(* C7  Subcommand resolution: the leading tokens that do not start with    *)
(* '-' are consumed one at a time, each descending into the child of the   *)
(* current node of that name; the arguments are then parsed against the    *)
(* deepest node reached, using exactly the unconsumed tokens, whatever the *)
(* order in which the children were declared.                              *)
(***************************************************************************)
ResolvesDeepest ==
    pc = "args" =>
        /\ FirstBad(root, Lead(argv)) = None
        /\ cmd = Descend(root, Lead(argv))
        /\ IsSuffix(input, ArgTokens(argv))
        /\ Len(argslist) = Len(cmd.args)
        /\ \A i \in 1..Len(argslist) : argslist[i].argname = cmd.args[i].argname
        /\ (argopt = None /\ argslist = cmd.args) => input = ArgTokens(argv)

\* args() starts on the subcommand of the subcommand "test", declared after
\* "aux", with the tokens that follow the two names
ResolvesDeepestWitness ==
    /\ pc = "args"
    /\ root = RootB
    /\ Len(Lead(argv)) = 2
    /\ cmd = InnerCommandBuilt
    /\ argslist = cmd.args
    /\ argopt = None
    /\ Len(input) = 2

(***************************************************************************)
(* C8  A leading token that does not start with '-' and is the name of no  *)
(* child of the current node makes the parse fail with the unknown-        *)
(* subcommand error naming that token; it is never skipped or left for     *)
(* argument parsing.                                                       *)
(***************************************************************************)
UnknownSubcommandFails ==
    (pc \in {"args", "done"} /\ IsSome(FirstBad(root, Lead(argv)))) =>
        /\ pc = "done"
        /\ result = NotValidSubcommand(FirstBad(root, Lead(argv)).some)
        /\ cmd = Descend(root, Lead(argv))

\* the parse failed on a token that follows a subcommand name (test 1)
UnknownSubcommandWitness ==
    /\ pc = "done"
    /\ Len(Lead(argv)) >= 2
    /\ cmd.name = "test" /\ cmd # root
    /\ result = NotValidSubcommand(Lead(argv)[2])

(***************************************************************************)
(* C9  There are no positional arguments: when an argument token is        *)
(* expected (no value-bearing argument is pending) and the next token      *)
(* starts with neither "--" nor '-', the parse fails with the              *)
(* not-an-argument error (--num 6 6 fails on the second 6).                *)
(***************************************************************************)
NoPositional ==
    (pc = "done" /\ FirstBad(root, Lead(argv)) = None) =>
        \A p \in Occ(ArgTokens(argv), cmd.args) :
            (~IsDashTok(ArgTokens(argv)[p])
                 /\ WellFormed(SubSeq(ArgTokens(argv), 1, p - 1), cmd.args))
              => result = NotArgumentNorValue(ArgTokens(argv)[p])

\* the parse failed on a bare token that follows the value of a Num argument
NoPositionalWitness ==
    /\ pc = "done"
    /\ Len(ArgTokens(argv)) >= 3
    /\ DeclIdx(cmd.args, ArgTokens(argv)[1]) # {}
    /\ TheDecl(cmd.args, ArgTokens(argv)[1]).argtype = "Num"
    /\ ParseI64(ArgTokens(argv)[3]).ok
    /\ result = NotArgumentNorValue(ArgTokens(argv)[3])

(***************************************************************************)
(* C10  For a token that starts with a single '-', only the character      *)
(* right after the dash is the short name that is looked up: -num is       *)
(* looked up as -n, never as the long name num; when no -n is declared     *)
(* the parse fails with the unknown-argument error for -n, and when -n is  *)
(* declared the token is taken as that argument.                           *)
(***************************************************************************)
ShortTakesOneChar ==
    (pc = "done" /\ FirstBad(root, Lead(argv)) = None) =>
        \A p \in Occ(ArgTokens(argv), cmd.args) :
            LET T   == ArgTokens(argv)
                c   == Chars(T[p])[2]
                dcl == {i \in 1..Len(cmd.args) :
                           /\ HasShort(cmd.args[i].argname)
                           /\ cmd.args[i].argname.short = c}
            IN  (IsShortTok(T[p]) /\ WellFormed(SubSeq(T, 1, p - 1), cmd.args)) =>
                   IF dcl = {}
                   THEN result = NotValidArgumentShort(c)
                   ELSE /\ result # NotValidArgumentShort(c)
                        /\ (result.ok /\ p < Len(T)) =>
                               \A i \in dcl : Entries(result.v.args, cmd.args[i]) # {}

\* -num was refused as -n by a command that declares --num
ShortTakesOneCharWitness ==
    /\ pc = "done"
    /\ \E p \in 1..Len(ArgTokens(argv)) : ArgTokens(argv)[p] = "-num"
    /\ IsSome(Get(cmd.args, Long(Chars("num"))))
    /\ Get(cmd.args, Short("n")) = None
    /\ result = NotValidArgumentShort("n")

(***************************************************************************)
(* C11  When the token that follows a Num argument is not an integer, or   *)
(* the token that follows a Float argument is not a decimal number, the    *)
(* parse fails with the invalid-number or invalid-float error that names   *)
(* that argument, and no parsed command is returned.                       *)
(***************************************************************************)
InvalidNumericValueFails ==
    (pc = "done" /\ FirstBad(root, Lead(argv)) = None) =>
        \A p \in Occ(ArgTokens(argv), cmd.args) :
            LET T == ArgTokens(argv)
                a == TheDecl(cmd.args, T[p])
            IN  ( /\ DeclIdx(cmd.args, T[p]) # {}
                  /\ p < Len(T)
                  /\ WellFormed(SubSeq(T, 1, p - 1), cmd.args) ) =>
                   /\ (a.argtype = "Num" /\ ~ParseI64(T[p + 1]).ok) =>
                          result = NotValidNumber(a.argname)
                   /\ (a.argtype = "Float" /\ ~ParseF64(T[p + 1]).ok) =>
                          result = NotValidFloat(a.argname)

\* --float was followed by a word and the parse failed naming --float
InvalidNumericValueWitness ==
    /\ pc = "done"
    /\ Len(ArgTokens(argv)) >= 2
    /\ ArgTokens(argv)[1] = "--float"
    /\ ArgTokens(argv)[2] = "test"
    /\ result = NotValidFloat(Long(Chars("float")))

(***************************************************************************)
(* C12  A token that is exactly "--" makes the parse fail with the         *)
(* malformed-long-argument error ("is not a valid long argument"), which   *)
(* is not the unknown-argument error; no argument with an empty long name  *)
(* is looked up.                                                           *)
(***************************************************************************)
DoubleDashIsMalformed ==
    (pc = "done" /\ FirstBad(root, Lead(argv)) = None) =>
        \A p \in Occ(ArgTokens(argv), cmd.args) :
            LET T == ArgTokens(argv)
            IN  (T[p] = "--" /\ WellFormed(SubSeq(T, 1, p - 1), cmd.args)) =>
                   /\ result = NotValidLongArgument("--")
                   /\ result # NotValidArgumentLong(<<>>)

(***************************************************************************)
(* C13  When no token is left after the program name and the subcommand    *)
(* names, the parse succeeds and reports no argument of the target         *)
(* command as given: every declared argument has occurrence count 0.       *)
(***************************************************************************)
NoTokensSucceeds ==
    ( /\ pc = "done"
      /\ argv # <<>>
      /\ ArgTokens(argv) = <<>>
      /\ FirstBad(root, Lead(argv)) = None ) =>
        /\ result.ok
        /\ \A i \in 1..Len(cmd.args) :
               OccurrenceCount(result.v.args, cmd.args[i]) = 0
        /\ result.v.args = <<>>

\* a subcommand that declares arguments was named and nothing followed
NoTokensWitness ==
    /\ pc = "done"
    /\ Len(argv) = 2
    /\ Lead(argv) = <<"test">>
    /\ Len(cmd.args) > 0
    /\ cmd # root
    /\ result.ok

(***************************************************************************)
(* C14  parse_from leaves the Command unchanged and every call starts      *)
(* from fresh argument state: whatever calls were made before on the same  *)
(* Command, and whether they succeeded or failed, a call returns what      *)
(* parsing its token list on the freshly built Command returns.            *)
(***************************************************************************)
ParseIsRepeatable ==
    /\ [](pc \in {"done", "panic"} => result = parser_parse(root, argv))
    /\ [][root' = root]_vars

\* a call without tokens reported no argument, after a call on the same
\* Command that had set the flag -h
ParseIsRepeatableWitness ==
    /\ pc = "done"
    /\ prev = Some(<<"test-program", "-h", "-h">>)
    /\ argv = <<"test-program">>
    /\ argslist = root.args
    /\ result = ParsedCommand(<<>>, <<>>)

(***************************************************************************)
(* C15  The first error ends the parse.  When a parse fails at a token,    *)
(* every token list that agrees with the given one up to and including     *)
(* that token fails with the same error, whatever follows: the tokens      *)
(* after it are not looked at, and the result is the error alone, never a  *)
(* parsed command.                                                         *)
(***************************************************************************)
\* Largest number of tokens put after the failing one.
MaxRest == 2

FirstErrorEnds ==
    Failed =>
        LET i == Len(argv) - Len(input) + 1
        IN  /\ i <= Len(argv)
            /\ input = SubSeq(argv, i, Len(argv))
            /\ DOMAIN result = {"ok", "err"}
            /\ \A rest \in SeqsUpTo(TokensCalls, MaxRest) :
                   parser_parse(root, SubSeq(argv, 1, i) \o rest) = result

\* the parse failed at "--" and the token after it was left where it was
FirstErrorEndsWitness ==
    /\ pc = "done"
    /\ argv = <<"test-program", "--", "1">>
    /\ input = <<"--", "1">>
    /\ result = NotValidArgumentLong(<<>>)

(***************************************************************************)
(* C16  Names are unique after construction.  Adding an argument whose     *)
(* name equals (under ArgName equality) one already added to the same      *)
(* builder panics, and so does attaching a subcommand whose name is that   *)
(* of a subcommand already attached; so in whatever was built without a    *)
(* panic, no two arguments of a command have equal names and no two        *)
(* subcommands of a command have the same name.                            *)
(***************************************************************************)
RECURSIVE Nodes(_)
\* the commands of a tree
Nodes(n) == {n} \cup UNION {Nodes(n.subcommands[i]) : i \in 1..Len(n.subcommands)}

UniqueIn(n) ==
    /\ \A i, j \in 1..Len(n.args) :
           i # j => ~ArgNameEq(n.args[i].argname, n.args[j].argname)
    /\ \A i, j \in 1..Len(n.subcommands) :
           i # j => n.subcommands[i].name # n.subcommands[j].name

NamesAreUnique ==
    /\ pc \in {"build", "panic"} =>
           \A k \in 1..Len(builders) : \A n \in Nodes(builders[k]) : UniqueIn(n)
    /\ pc = "built" => \A n \in Nodes(root) : UniqueIn(n)

\* a command was built with two arguments and two subcommands
NamesAreUniqueWitness ==
    /\ pc = "built"
    /\ Len(root.args) = 2
    /\ Len(root.subcommands) = 2

(***************************************************************************)
(* C17  The parents of a command are the names of all its ancestors, the   *)
(* root first: a command k levels below the root has k parents, and a      *)
(* parse that resolves to it returns that list (the empty list for the     *)
(* root).                                                                  *)
(***************************************************************************)
\* the names of the root and of the commands passed on the way down along
\* names, without the command reached
Ancestors(r, names) ==
    IF names = <<>> THEN <<>>
    ELSE <<r.name>> \o SubSeq(names, 1, Len(names) - 1)

ParentsAreAncestors ==
    (Succeeded /\ FirstBad(root, Lead(argv)) = None) =>
        /\ cmd.parents = Ancestors(root, Lead(argv))
        /\ result.v.parents = Ancestors(root, Lead(argv))

(***************************************************************************)
(* C18  parse_from never panics: for every token list, the empty list and  *)
(* the list with the program name alone included, the call returns either  *)
(* a parsed command or an error.                                           *)
(***************************************************************************)
NeverPanics == pc # "panic" /\ result # PANIC

(***************************************************************************)
(* C19  Every parse ends after a number of steps that is linear in the     *)
(* number of tokens.  Each iteration removes a token, returns, or clears   *)
(* the pending argument without removing a token; an iteration of the      *)
(* last kind leaves no argument pending, so the next one removes a token   *)
(* or returns.                                                             *)
(***************************************************************************)
\* a bound on the number of steps the call still takes
Rank ==
    CASE pc = "parse"    -> 2 * Len(input) + 3
      [] pc = "traverse" -> 2 * Len(input) + 2
      [] pc = "args"     -> 2 * Len(input) + 1 + (IF IsSome(argopt) THEN 1 ELSE 0)
      [] OTHER           -> 0

TerminatesLinearly ==
    /\ [](Rank <= 2 * Len(argv) + 3)
    /\ [][Rank' < Rank]_vars
    /\ [][(pc = "args" /\ pc' = "args" /\ input' = input) =>
              (IsSome(argopt) /\ argopt' = None)]_vars

\* four flag tokens were parsed: each took one iteration to be matched and
\* all but the last one to be recorded
TerminatesLinearlyWitness ==
    /\ pc = "done"
    /\ result.ok
    /\ Len(ArgTokens(argv)) = 4
    /\ \A p \in 1..4 : /\ DeclIdx(cmd.args, ArgTokens(argv)[p]) # {}
                        /\ ~ValueBearing(TheDecl(cmd.args, ArgTokens(argv)[p]))

(***************************************************************************)
(* C20  The token after a value-bearing argument is its value, whatever    *)
(* its text.  A token that starts with '-' in that place is not taken as   *)
(* an argument: after --idk the token --help is the String "--help" and    *)
(* does not set the flag, and after --num the token -5 is the number -5.   *)
(***************************************************************************)
ValueIsTakenVerbatim ==
    (pc = "done" /\ FirstBad(root, Lead(argv)) = None) =>
        \A p \in Occ(ArgTokens(argv), cmd.args) :
            LET T    == ArgTokens(argv)
                D    == cmd.args
                a    == TheDecl(D, T[p])
                last == \A i \in DeclIdx(D, T[p]) : p = Max(OccOf(T, D, i))
                val  == Get(result.v.args, a.argname).some.argvalue
            IN  ( /\ DeclIdx(D, T[p]) # {}
                  /\ ValueBearing(a)
                  /\ p < Len(T)
                  /\ IsDashTok(T[p + 1])
                  /\ WellFormed(SubSeq(T, 1, p - 1), D) ) =>
                   /\ (a.argtype = "Num" /\ ~ParseI64(T[p + 1]).ok) =>
                          result = NotValidNumber(a.argname)
                   /\ (result.ok /\ last) =>
                          /\ IsSome(Get(result.v.args, a.argname))
                          /\ a.argtype = "String" =>
                                 val = Some([tag |-> "String", v |-> T[p + 1]])
                          /\ a.argtype = "Num" =>
                                 val = Some([tag |-> "Num", v |-> ParseI64(T[p + 1]).v])
                   /\ result.ok =>
                          \A b \in DeclIdx(D, T[p + 1]) :
                              (\A q \in OccOf(T, D, b) : q = Len(T)) =>
                                  Entries(result.v.args, D[b]) = {}

\* --idk --help --num -5: idk is "--help", num is -5, the flag is not set
ValueIsTakenVerbatimWitness ==
    /\ pc = "done"
    /\ argv = <<"test-program", "--idk", "--help", "--num", "-5">>
    /\ result.ok
    /\ Get(result.v.args, Long(Chars("idk"))).some.argvalue
           = Some([tag |-> "String", v |-> "--help"])
    /\ Get(result.v.args, Long(Chars("num"))).some.argvalue
           = Some([tag |-> "Num", v |-> 0 - 5])
    /\ Get(result.v.args, Long(Chars("help"))) = None

(***************************************************************************)
(* C21  Lookup from the command line is unambiguous.  In a list whose      *)
(* arguments were all added without a panic, every key Short(c) and every  *)
(* key Long(s) equals the name of at most one argument, although equality  *)
(* of names is not transitive; so what ArgList::get finds for a key does   *)
(* not depend on the order in which the arguments were declared, and       *)
(* looking the same key up twice in the unchanged list returns the same    *)
(* argument.                                                               *)
(***************************************************************************)
\* the indices of the arguments of args whose name equals key
Matches(args, key) == {i \in 1..Len(args) : ArgNameEq(args[i].argname, key)}

\* the orders in which the arguments of args can be declared
Reorderings(args) ==
    LET n == Len(args)
        B == {f \in [1..n -> 1..n] : \A i, j \in 1..n : i # j => f[i] # f[j]}
    IN  {[i \in 1..n |-> args[f[i]]] : f \in B}

LookupIsUnambiguous ==
    /\ pc \in {"build", "panic"} =>
           \A key \in LookupKeys : Cardinality(Matches(builders[1].args, key)) <= 1
    /\ pc = "built" =>
           /\ \A key \in LookupKeys :
                  /\ Cardinality(Matches(argslist, key)) <= 1
                  /\ \A other \in Reorderings(argslist) :
                         Get(other, key) = Get(argslist, key)
           /\ Len(found) = 2 =>
                  /\ found[1].key = found[2].key
                  /\ found[1].arg = found[2].arg

\* -h and --help are two arguments of a list of three, and -h was looked up
\* twice and found twice
LookupIsUnambiguousWitness ==
    /\ pc = "built"
    /\ Len(argslist) = 3
    /\ Matches(argslist, Short("h")) # {}
    /\ Matches(argslist, Long(Chars("help"))) # {}
    /\ Matches(argslist, Short("h")) # Matches(argslist, Long(Chars("help")))
    /\ Len(found) = 2
    /\ found[1].key = Short("h")
    /\ found[2].arg = Some(ArgNew(Short("h"), "Flag"))

====
